---------------------------- MODULE Spec2Model ----------------------------
(***************************************************************************)
(* A model of the AI Writer backend (backend/app.py, backend/model.py,     *)
(* backend/prompts.py).                                                    *)
(*                                                                         *)
(* Texts are TLA+ strings; Len, SubSeq and \o act on them character by     *)
(* character, so the string functions of prompts.py are computed the way   *)
(* Python computes them.  Positions are 1-based here and 0-based in the    *)
(* source; rfind and the sentence-completion step convert explicitly.      *)
(***************************************************************************)
EXTENDS Integers, Sequences, FiniteSets, TLC

VARIABLES
    \* ---- backend/model.py and backend/app.py: the service ----
    model_instance,   \* model.py  _model_instance (None or an instance)
    model,            \* app.py    model           (None or an instance)
    built,            \* instances constructed so far, in order: who built each
    caller,           \* per get_model caller: its position and result
    startup,          \* position of startup_event
    req,              \* the POST /api/generate request being handled, if any
    resp,             \* the response to the last request received, once sent
    served,           \* number of requests received so far, per kind of route
    \* ---- backend/prompts.py: the pure functions, applied to drawn inputs ----
    generated_text,   \* the text given to clean_output / the user input
    content_type,     \* the content type given
    additional_context, \* the context given to add_context
    pc,               \* which function has been applied to the drawn input
    out               \* what it returned

svars == <<model_instance, model, built, caller, startup, req, resp, served>>
pvars == <<generated_text, content_type, additional_context, pc, out>>
vars == <<model_instance, model, built, caller, startup, req, resp, served,
          generated_text, content_type, additional_context, pc, out>>

-----------------------------------------------------------------------------
(* Python's str operations, on strings. *)

Max(a, b) == IF a >= b THEN a ELSE b

\* str.startswith
StartsWith(s, p) == Len(p) <= Len(s) /\ SubSeq(s, 1, Len(p)) = p

\* the substring of s that starts at 1-based position i and has the length of sub
At(s, sub, i) == SubSeq(s, i, i + Len(sub) - 1)

\* sub in s
Contains(s, sub) ==
    \E i \in 1..(Len(s) - Len(sub) + 1) : At(s, sub, i) = sub

\* the 1-based positions at which sub occurs in s
Occurrences(s, sub) ==
    {i \in 1..(Len(s) - Len(sub) + 1) : At(s, sub, i) = sub}

\* 1-based position of the first occurrence of sub in s, 0 if none
Find(s, sub) ==
    LET hits == Occurrences(s, sub) IN
    IF hits = {} THEN 0 ELSE CHOOSE i \in hits : \A j \in hits : i <= j

\* s.split(sub)[0]: the text before the first occurrence of sub (s if none)
SplitFirst(s, sub) ==
    LET i == Find(s, sub) IN IF i = 0 THEN s ELSE SubSeq(s, 1, i - 1)

\* s.replace(old, new): every non-overlapping occurrence, left to right
RECURSIVE Replace(_, _, _)
Replace(s, old, new) ==
    LET i == Find(s, old) IN
    IF i = 0 THEN s
    ELSE SubSeq(s, 1, i - 1) \o new
         \o Replace(SubSeq(s, i + Len(old), Len(s)), old, new)

\* s.replace(old, new, 1): the first occurrence only
ReplaceFirst(s, old, new) ==
    LET i == Find(s, old) IN
    IF i = 0 THEN s
    ELSE SubSeq(s, 1, i - 1) \o new \o SubSeq(s, i + Len(old), Len(s))

\* the characters str.strip() removes
Whitespace == {" ", "\t", "\n", "\r", "\f"}

RECURSIVE LStrip(_)
LStrip(s) ==
    IF Len(s) > 0 /\ SubSeq(s, 1, 1) \in Whitespace
    THEN LStrip(SubSeq(s, 2, Len(s))) ELSE s

RECURSIVE RStrip(_)
RStrip(s) ==
    IF Len(s) > 0 /\ SubSeq(s, Len(s), Len(s)) \in Whitespace
    THEN RStrip(SubSeq(s, 1, Len(s) - 1)) ELSE s

\* str.strip()
Strip(s) == RStrip(LStrip(s))

\* str.rfind(ch): 0-based position of the last occurrence of ch, -1 if none
RFind(s, ch) ==
    LET hits == Occurrences(s, ch) IN
    IF hits = {} THEN -1 ELSE (CHOOSE i \in hits : \A j \in hits : i >= j) - 1

\* the largest power of two that is <= n, for n >= 1
RECURSIVE Pow2Floor(_)
Pow2Floor(n) == IF n < 2 THEN 1 ELSE 2 * Pow2Floor(n \div 2)

(***************************************************************************)
(* k > n * 0.7 as Python evaluates it, for integers k and n >= 0: n * 0.7  *)
(* is an IEEE-754 double product.  The double 0.7 is 0.4 * 2^-53 below     *)
(* 7/10, so the exact product is 7n/10 - 0.4n * 2^-53, rounded to 53 bits. *)
(* When 10 does not divide n the nearest integers are 0.1 or more away and *)
(* the rounding cannot change the comparison.  When n = 10j the product    *)
(* rounds to 7j unless 4j exceeds the largest power of two <= 7j, in which *)
(* case it rounds to the double just below 7j, and k = 7j then compares    *)
(* greater (n = 170, k = 119 is the smallest such case).                   *)
(***************************************************************************)
GreaterThanSeventyPercent(k, n) ==
    \/ 10 * k > 7 * n
    \/ /\ 10 * k = 7 * n
       /\ k >= 1
       /\ 4 * (n \div 10) > Pow2Floor(k)

-----------------------------------------------------------------------------
(* backend/prompts.py: PromptTemplates.get_prompt and get_short_prompt. *)

\* prompts['blog']
BlogPrompt(user_input) ==
    "Write a comprehensive and engaging blog post about: "
    \o user_input
    \o "\n"
    \o "\n"
    \o "Create a well-structured blog post with the following elements:\n"
    \o "- An attention-grabbing introduction\n"
    \o "- Clear and informative main content with multiple paragraphs\n"
    \o "- Practical examples or insights\n"
    \o "- A strong conclusion\n"
    \o "\n"
    \o "Blog Post:\n"

\* prompts['email']
EmailPrompt(user_input) ==
    "Write a professional email about: "
    \o user_input
    \o "\n"
    \o "\n"
    \o "The email should include:\n"
    \o "- A clear and relevant subject line\n"
    \o "- Professional greeting\n"
    \o "- Well-structured body with main message\n"
    \o "- Appropriate closing and sign-off\n"
    \o "\n"
    \o "Email:\n"
    \o "Subject: \n"
    \o "Dear [Recipient],\n"
    \o "\n"

\* prompts['copy']
CopyPrompt(user_input) ==
    "Write persuasive marketing copy for: "
    \o user_input
    \o "\n"
    \o "\n"
    \o "Create compelling marketing copy that includes:\n"
    \o "- An attention-grabbing headline\n"
    \o "- Benefits-focused body text that resonates with the audience\n"
    \o "- Emotional appeal and value proposition\n"
    \o "- Strong call-to-action that motivates readers\n"
    \o "\n"
    \o "Marketing Copy:\n"

\* prompts['seo']
SeoPrompt(user_input) ==
    "Write SEO-optimized content about: "
    \o user_input
    \o "\n"
    \o "\n"
    \o "Create search engine optimized content that includes:\n"
    \o "- Relevant keywords naturally integrated throughout\n"
    \o "- Clear headings and subheadings\n"
    \o "- Informative and valuable content for readers\n"
    \o "- Meta description friendly structure\n"
    \o "\n"
    \o "SEO Content:\n"

\* prompts['video']
VideoPrompt(user_input) ==
    "Write an engaging video script about: "
    \o user_input
    \o "\n"
    \o "\n"
    \o "Create a video script with:\n"
    \o "- A powerful hook to grab attention in the first 5 seconds\n"
    \o "- Clear and engaging main content\n"
    \o "- Natural conversational tone\n"
    \o "- Strong call-to-action at the end\n"
    \o "\n"
    \o "Video Script:\n"
    \o "[Opening Hook]\n"

\* a summarize template that names the text in its instruction as well
SummarizePromptTwice(user_input) ==
    "Provide a clear and concise summary of " \o user_input \o ". "
    \o "Capture the main points and key information:\n"
    \o "\n"
    \o user_input
    \o "\n"
    \o "\n"
    \o "Summary:\n"

\* prompts['summarize']
SummarizePrompt(user_input) ==
    "Provide a clear and concise summary of the following text. "
    \o "Capture the main points and key information:\n"
    \o "\n"
    \o user_input
    \o "\n"
    \o "\n"
    \o "Summary:\n"

\* prompts['content']
ContentPrompt(user_input) ==
    "Generate creative and engaging content about: "
    \o user_input
    \o "\n"
    \o "\n"
    \o "Create original content that is:\n"
    \o "- Well-written and easy to read\n"
    \o "- Informative and valuable\n"
    \o "- Properly structured with clear flow\n"
    \o "\n"
    \o "Content:\n"

\* short_prompts['blog']
BlogShortPrompt(user_input) ==
    "Write a blog post about " \o user_input \o ":\n" \o "\n"

\* short_prompts['email']
EmailShortPrompt(user_input) ==
    "Write a professional email about " \o user_input \o ":\n" \o "\n"

\* short_prompts['copy']
CopyShortPrompt(user_input) ==
    "Write marketing copy for " \o user_input \o ":\n" \o "\n"

\* short_prompts['seo']
SeoShortPrompt(user_input) ==
    "Write SEO content about " \o user_input \o ":\n" \o "\n"

\* short_prompts['video']
VideoShortPrompt(user_input) ==
    "Write a video script about " \o user_input \o ":\n" \o "\n"

\* short_prompts['summarize']
SummarizeShortPrompt(user_input) ==
    "Summarize: " \o user_input \o "\n" \o "\n" \o "Summary:\n"

\* short_prompts['content']
ContentShortPrompt(user_input) ==
    "Write about " \o user_input \o ":\n" \o "\n"

\* the dict built by get_prompt
prompts(user_input) ==
    [t \in {"blog", "email", "copy", "seo", "video", "summarize", "content"} |->
        CASE t = "blog" -> BlogPrompt(user_input)
          [] t = "email" -> EmailPrompt(user_input)
          [] t = "copy" -> CopyPrompt(user_input)
          [] t = "seo" -> SeoPrompt(user_input)
          [] t = "video" -> VideoPrompt(user_input)
          [] t = "summarize" -> SummarizePrompt(user_input)
          [] t = "content" -> ContentPrompt(user_input)]

\* get_prompt with the blog template as the fallback
get_prompt_fallback_blog(ctype, user_input) ==
    IF ctype \in DOMAIN prompts(user_input)
    THEN prompts(user_input)[ctype]
    ELSE prompts(user_input)["blog"]

\* prompts.get(content_type, prompts['content'])
get_prompt(ctype, user_input) ==
    IF ctype \in DOMAIN prompts(user_input)
    THEN prompts(user_input)[ctype]
    ELSE prompts(user_input)["content"]

\* the dict built by get_short_prompt
short_prompts(user_input) ==
    [t \in {"blog", "email", "copy", "seo", "video", "summarize", "content"} |->
        CASE t = "blog" -> BlogShortPrompt(user_input)
          [] t = "email" -> EmailShortPrompt(user_input)
          [] t = "copy" -> CopyShortPrompt(user_input)
          [] t = "seo" -> SeoShortPrompt(user_input)
          [] t = "video" -> VideoShortPrompt(user_input)
          [] t = "summarize" -> SummarizeShortPrompt(user_input)
          [] t = "content" -> ContentShortPrompt(user_input)]

\* short_prompts.get(content_type, short_prompts['content'])
get_short_prompt(ctype, user_input) ==
    IF ctype \in DOMAIN short_prompts(user_input)
    THEN short_prompts(user_input)[ctype]
    ELSE short_prompts(user_input)["content"]

\* get_available_types
get_available_types ==
    <<"blog", "email", "copy", "seo", "video", "summarize", "content">>

\* s.split(sep): the pieces of s between the occurrences of sep, left to right
RECURSIVE Split(_, _)
Split(s, sep) ==
    LET i == Find(s, sep) IN
    IF i = 0 THEN <<s>>
    ELSE <<SubSeq(s, 1, i - 1)>> \o Split(SubSeq(s, i + Len(sep), Len(s)), sep)

\* sep.join(parts)
RECURSIVE Join(_, _)
Join(parts, sep) ==
    IF Len(parts) = 0 THEN ""
    ELSE IF Len(parts) = 1 THEN parts[1]
    ELSE parts[1] \o sep \o Join(Tail(parts), sep)

\* parts.insert(-1, x): x goes in before the last element
InsertBeforeLast(parts, x) ==
    IF Len(parts) = 0 THEN <<x>>
    ELSE SubSeq(parts, 1, Len(parts) - 1) \o <<x>> \o <<parts[Len(parts)]>>

\* context_section = f"\nAdditional Context: {additional_context}\n\n"
context_section(context) == "\nAdditional Context: " \o context \o "\n\n"

\* PromptTemplates.add_context
add_context(ctype, user_input, context) ==
    LET base_prompt == get_prompt(ctype, user_input)
        parts == Split(base_prompt, "\n\n")
    IN  IF context # "" /\ Len(parts) > 1
        THEN Join(InsertBeforeLast(parts, context_section(context)), "\n\n")
        ELSE base_prompt

-----------------------------------------------------------------------------
(* backend/prompts.py: PromptTemplates.clean_output, step by step. *)

\* while '\n\n\n' in text: text = text.replace('\n\n\n', '\n\n')
RECURSIVE CollapseNewlines(_)
CollapseNewlines(text) ==
    IF Contains(text, "\n\n\n")
    THEN CollapseNewlines(Replace(text, "\n\n\n", "\n\n"))
    ELSE text

\* a single text.replace('  ', ' ') in place of the loop
CollapseSpacesOnce(text) == Replace(text, "  ", " ")

\* while '  ' in text: text = text.replace('  ', ' ')
RECURSIVE CollapseSpaces(_)
CollapseSpaces(text) ==
    IF Contains(text, "  ")
    THEN CollapseSpaces(Replace(text, "  ", " "))
    ELSE text

\* an artifacts list without the end-of-sequence tag
artifactsWithoutEos == <<"[END]", "[DONE]", "<|endoftext|>", "<END>">>

\* the artifacts list, in its order
artifacts == <<"[END]", "[DONE]", "<|endoftext|>", "<END>", "</s>">>

\* an artifact loop that stops after the first marker it finds in the text
RECURSIVE RemoveArtifactsFirstOnly(_, _)
RemoveArtifactsFirstOnly(text, i) ==
    IF i > Len(artifacts) THEN text
    ELSE IF Contains(text, artifacts[i]) THEN SplitFirst(text, artifacts[i])
    ELSE RemoveArtifactsFirstOnly(text, i + 1)

\* for artifact in artifacts: if artifact in text: text = text.split(artifact)[0]
\* (the loop from its i-th iteration on)
RECURSIVE RemoveArtifactsFrom(_, _)
RemoveArtifactsFrom(text, i) ==
    IF i > Len(artifacts) THEN text
    ELSE RemoveArtifactsFrom(
             IF Contains(text, artifacts[i])
             THEN SplitFirst(text, artifacts[i]) ELSE text,
             i + 1)

RemoveArtifacts(text) == RemoveArtifactsFrom(text, 1)

\* the subject line the email fix-up prepends
SubjectLine == "Subject: Re: Your Inquiry"

\* the content-specific cleaning with the subject line prepended to every email
ContentFixupAlwaysSubject(text, ctype) ==
    IF ctype = "email" THEN SubjectLine \o "\n\n" \o text
    ELSE IF ctype = "video" THEN
        IF ~Contains(text, "[Opening Hook]") /\ ~Contains(text, "[Hook]")
        THEN "[Opening Hook]\n" \o text ELSE text
    ELSE IF ctype = "summarize" THEN
        IF StartsWith(text, "Summary:")
        THEN Strip(ReplaceFirst(text, "Summary:", "")) ELSE text
    ELSE text

\* the content-specific cleaning: the if / elif / elif on content_type
ContentFixup(text, ctype) ==
    IF ctype = "email" THEN
        IF ~StartsWith(text, "Subject:")
        THEN SubjectLine \o "\n\n" \o text ELSE text
    ELSE IF ctype = "video" THEN
        IF ~Contains(text, "[Opening Hook]") /\ ~Contains(text, "[Hook]")
        THEN "[Opening Hook]\n" \o text ELSE text
    ELSE IF ctype = "summarize" THEN
        IF StartsWith(text, "Summary:")
        THEN Strip(ReplaceFirst(text, "Summary:", "")) ELSE text
    ELSE text

\* len(text) > 100 in the sentence-completion step
MinTrimLength == 100

\* the final characters the sentence-completion step accepts
SentenceEnders == {".", "!", "?", "\"", "'", ")"}

\* max(text.rfind('.'), text.rfind('!'), text.rfind('?')), 0-based, -1 if none
LastPeriod(text) ==
    Max(RFind(text, "."), Max(RFind(text, "!"), RFind(text, "?")))

\* the removal of an incomplete sentence at the end
SentenceTrim(text) ==
    IF Len(text) > MinTrimLength
       /\ SubSeq(text, Len(text), Len(text)) \notin SentenceEnders
    THEN LET last_period == LastPeriod(text) IN
         IF GreaterThanSeventyPercent(last_period, Len(text))
         THEN SubSeq(text, 1, last_period + 1) ELSE text
    ELSE text

\* the text as it stands before the artifact loop (steps 1 to 3)
Collapsed(raw) == CollapseSpaces(CollapseNewlines(Strip(raw)))

\* the text as it stands after the artifact loop (steps 1 to 4)
Normalize(raw) ==
    RemoveArtifacts(CollapseSpaces(CollapseNewlines(Strip(raw))))

\* the text as it stands before the sentence-completion step (steps 1 to 5)
Fixed(raw, ctype) == ContentFixup(Normalize(raw), ctype)

\* PromptTemplates.clean_output
clean_output(raw, ctype) ==
    Strip(SentenceTrim(ContentFixup(Normalize(raw), ctype)))

-----------------------------------------------------------------------------
(* backend/model.py: the singleton loader.  An instance is named by its    *)
(* position in built; None is 0.                                           *)

\* Python's None, for a model handle
None == 0

\* how many threads besides startup_event call get_model
NumCallers == 3

\* how many times reload_model is called
MaxReloads == 1

\* the caller of get_model that is startup_event (app.py, model = get_model(...))
StartupCaller == 0

\* the callers of get_model: startup_event and the other threads
Callers == StartupCaller..NumCallers

\* the other threads
Threads == Callers \ {StartupCaller}

\* the callers of get_model while the service runs: startup_event and one
\* other thread
ServiceCallers == {StartupCaller, StartupCaller + 1}

\* Config.MODEL_NAME
MODEL_NAME == "gpt2"

\* a record of one construction AIWriterModel(model_name) that succeeded
Construction(by, via) == [by |-> by, via |-> via]

\* the instances that get_model itself constructed
BuiltByGetModel == {i \in DOMAIN built : built[i].via = "get_model"}

\* get_model, line 183: the caller reads _model_instance and compares it with
\* None; an existing instance is returned at once
GetModelCheck(c) ==
    /\ caller[c].pc = "idle"
    /\ c = StartupCaller => startup = "pending"
    /\ caller' = [caller EXCEPT ![c] =
           IF model_instance = None
           THEN [pc |-> "constructing", result |-> None]
           ELSE [pc |-> "returned", result |-> model_instance]]
    /\ UNCHANGED <<model_instance, model, built, startup, req, resp, served, pvars>>

\* get_model, line 185: AIWriterModel(model_name) returns and the new instance is
\* stored in _model_instance
GetModelStore(c) ==
    /\ caller[c].pc = "constructing"
    /\ built' = Append(built, Construction(c, "get_model"))
    /\ model_instance' = Len(built) + 1
    /\ caller' = [caller EXCEPT ![c].pc = "stored"]
    /\ UNCHANGED <<model, startup, req, resp, served, pvars>>

\* get_model, line 185: AIWriterModel(model_name) raises (__init__ logs and
\* re-raises); nothing is stored and the exception reaches the caller
GetModelRaise(c) ==
    /\ caller[c].pc = "constructing"
    /\ caller' = [caller EXCEPT ![c].pc = "raised"]
    /\ UNCHANGED <<model_instance, model, built, startup, req, resp, served, pvars>>

\* get_model, line 186: return _model_instance, read again from the global
GetModelReturn(c) ==
    /\ caller[c].pc = "stored"
    /\ caller' = [caller EXCEPT ![c] = [pc |-> "returned", result |-> model_instance]]
    /\ UNCHANGED <<model_instance, model, built, startup, req, resp, served, pvars>>

\* a reload_model that also rebinds the handle of app.py
ReloadModelRebinds ==
    /\ Cardinality({i \in DOMAIN built : built[i].via = "reload_model"}) < MaxReloads
    /\ built' = Append(built, Construction(None, "reload_model"))
    /\ model_instance' = Len(built) + 1
    /\ model' = Len(built) + 1
    /\ UNCHANGED <<caller, startup, req, resp, served, pvars>>

\* reload_model: a new instance replaces _model_instance unconditionally
ReloadModel ==
    /\ Cardinality({i \in DOMAIN built : built[i].via = "reload_model"}) < MaxReloads
    /\ built' = Append(built, Construction(None, "reload_model"))
    /\ model_instance' = Len(built) + 1
    /\ UNCHANGED <<model, caller, startup, req, resp, served, pvars>>

-----------------------------------------------------------------------------
(* backend/app.py: startup_event.  The server accepts requests only after  *)
(* the startup event has returned.                                         *)

\* model = get_model(Config.MODEL_NAME) returned: the handle is set
StartupLoaded ==
    /\ startup = "pending"
    /\ caller[StartupCaller].pc = "returned"
    /\ model' = caller[StartupCaller].result
    /\ startup' = "loaded"
    /\ UNCHANGED <<model_instance, built, caller, req, resp, served, pvars>>

\* except Exception: the failure is logged and startup_event returns
StartupFailed ==
    /\ startup = "pending"
    /\ caller[StartupCaller].pc = "raised"
    /\ startup' = "failed"
    /\ UNCHANGED <<model_instance, model, built, caller, req, resp, served, pvars>>

\* the startup event has returned
Serving == startup \in {"loaded", "failed"}

-----------------------------------------------------------------------------
(* backend/app.py: POST /api/generate.  The handler is a coroutine without *)
(* an await, so the event loop runs one handler at a time, start to end;   *)
(* its steps are kept apart because other threads run between them.        *)

\* how many requests are received, on all routes together
MaxRequests == 2

\* GenerateRequest: the default of max_length
DefaultMaxLength == 500

\* GenerateRequest with "content" as the default of type
GenerateRequestContentDefault(body) ==
    [input |-> body.input,
     type |-> IF "type" \in DOMAIN body THEN body.type ELSE "content",
     max_length |-> IF "max_length" \in DOMAIN body
                    THEN body.max_length ELSE DefaultMaxLength]

\* GenerateRequest: the fields of a request body with the defaults filled in
\* (temperature, default 0.7, is passed through like max_length and left out)
GenerateRequest(body) ==
    [input |-> body.input,
     type |-> IF "type" \in DOMAIN body THEN body.type ELSE "blog",
     max_length |-> IF "max_length" \in DOMAIN body
                    THEN body.max_length ELSE DefaultMaxLength]

\* the request bodies received: type and max_length may be left out
Bodies ==
    {[input |-> "cats"]}
    \cup {[input |-> "cats", type |-> t] : t \in {"email", "poem"}}
    \cup {[input |-> "cats", type |-> "content", max_length |-> 50]}

\* what the text-generation pipeline may return for a prompt: a continuation,
\* with or without the prompt echoed in front of it
PipelineOutputs(prompt) ==
    {prompt \o " Thanks  for reaching out.", "Hello<|endoftext|>world"}

\* the messages of the exceptions the pipeline may raise
PipelineErrors == {"CUDA out of memory"}

\* AIWriterModel.generate_text, after the pipeline returned text: the echoed
\* prompt is removed
generate_text(prompt, text) ==
    IF StartsWith(text, prompt)
    THEN Strip(SubSeq(text, Len(prompt) + 1, Len(text)))
    ELSE text

\* no request is being handled
NoRequest ==
    [pc |-> "idle", request |-> [input |-> "", type |-> "", max_length |-> 0],
     type_given |-> FALSE, handle |-> None, calls |-> <<>>, error |-> "",
     prompt |-> "", gen_arg |-> "", generated_text |-> "",
     clean_arg |-> "", cleaned_text |-> ""]

\* no response has been sent to the last request received
NoResponse == [route |-> "none", code |-> 0, body |-> [success |-> FALSE]]

\* the event loop is free to run a handler
LoopFree == Serving /\ req.pc \in {"idle", "done"}

\* one more request may be received
MayReceive == served.generate + served.other < MaxRequests

\* a POST /api/generate request arrives and generate_content is entered
Receive(body) ==
    /\ LoopFree
    /\ MayReceive
    /\ served' = [served EXCEPT !.generate = @ + 1]
    /\ req' = [NoRequest EXCEPT !.pc = "received",
                                !.request = GenerateRequest(body),
                                !.type_given = "type" \in DOMAIN body]
    /\ resp' = NoResponse
    /\ UNCHANGED <<model_instance, model, built, caller, startup, pvars>>

\* generate_content without the check of the handle
CheckModelAbsent ==
    /\ req.pc = "received"
    /\ req' = [req EXCEPT !.pc = "model_checked", !.handle = model]
    /\ UNCHANGED <<model_instance, model, built, caller, startup, resp, served, pvars>>

\* if model is None: raise HTTPException(503), which except HTTPException re-raises
CheckModel ==
    /\ req.pc = "received"
    /\ req' = [req EXCEPT !.pc = IF model = None THEN "done" ELSE "model_checked",
                          !.handle = model]
    /\ resp' = IF model = None
               THEN [route |-> "generate", code |-> 503,
                     body |-> [detail |-> "Model not loaded. Please wait and try again."]]
               ELSE resp
    /\ UNCHANGED <<model_instance, model, built, caller, startup, served, pvars>>

\* prompt = PromptTemplates.get_prompt(request.type, request.input)
BuildPrompt ==
    /\ req.pc = "model_checked"
    /\ req' = [req EXCEPT !.pc = "prompt_built",
                          !.calls = Append(@, "get_prompt"),
                          !.prompt = get_prompt(req.request.type, req.request.input)]
    /\ UNCHANGED <<model_instance, model, built, caller, startup, resp, served, pvars>>

\* generated_text = model.generate_text(prompt=prompt, ...) returns
GenerateReturns(text) ==
    /\ req.pc = "prompt_built"
    /\ req' = [req EXCEPT !.pc = "generated",
                          !.calls = Append(@, "generate_text"),
                          !.gen_arg = req.prompt,
                          !.generated_text = generate_text(req.prompt, text)]
    /\ UNCHANGED <<model_instance, model, built, caller, startup, resp, served, pvars>>

\* a failed generation that is tried a second time before the error is sent
GenerateRaisesRetried(message) ==
    /\ req.pc = "prompt_built"
    /\ req' = [req EXCEPT !.pc = "done",
                          !.calls = Append(Append(@, "generate_text"), "generate_text"),
                          !.gen_arg = req.prompt,
                          !.error = message]
    /\ resp' = [route |-> "generate", code |-> 500, body |-> [detail |-> message]]
    /\ UNCHANGED <<model_instance, model, built, caller, startup, served, pvars>>

\* model.generate_text raises: except Exception as e: raise HTTPException(500, str(e))
GenerateRaises(message) ==
    /\ req.pc = "prompt_built"
    /\ req' = [req EXCEPT !.pc = "done",
                          !.calls = Append(@, "generate_text"),
                          !.gen_arg = req.prompt,
                          !.error = message]
    /\ resp' = [route |-> "generate", code |-> 500, body |-> [detail |-> message]]
    /\ UNCHANGED <<model_instance, model, built, caller, startup, served, pvars>>

\* cleaned_text = PromptTemplates.clean_output(generated_text, request.type)
CleanGenerated ==
    /\ req.pc = "generated"
    /\ req' = [req EXCEPT !.pc = "cleaned",
                          !.calls = Append(@, "clean_output"),
                          !.clean_arg = req.generated_text,
                          !.cleaned_text = clean_output(req.generated_text,
                                                        req.request.type)]
    /\ UNCHANGED <<model_instance, model, built, caller, startup, resp, served, pvars>>

\* a response that carries the generated text as it was before cleaning
ReturnContentUncleaned ==
    /\ req.pc = "cleaned"
    /\ req' = [req EXCEPT !.pc = "done"]
    /\ resp' = [route |-> "generate", code |-> 200,
                body |-> [success |-> TRUE,
                          content |-> req.generated_text,
                          type |-> req.request.type,
                          input_length |-> Len(req.request.input),
                          output_length |-> Len(req.generated_text)]]
    /\ UNCHANGED <<model_instance, model, built, caller, startup, served, pvars>>

\* return {"success": True, "content": cleaned_text, "type": request.type, ...}
ReturnContent ==
    /\ req.pc = "cleaned"
    /\ req' = [req EXCEPT !.pc = "done"]
    /\ resp' = [route |-> "generate", code |-> 200,
                body |-> [success |-> TRUE,
                          content |-> req.cleaned_text,
                          type |-> req.request.type,
                          input_length |-> Len(req.request.input),
                          output_length |-> Len(req.cleaned_text)]]
    /\ UNCHANGED <<model_instance, model, built, caller, startup, served, pvars>>

-----------------------------------------------------------------------------
(* backend/app.py: the other routes. *)

\* a health body that names the configured model whether or not it is loaded
HealthBodyAlwaysNamed(m) ==
    [status |-> "ok", message |-> "Server is running",
     model_loaded |-> m # None,
     model_name |-> MODEL_NAME]

\* the body of the GET /api/health response for a handle
HealthBody(m) ==
    [status |-> "ok", message |-> "Server is running",
     model_loaded |-> m # None,
     model_name |-> IF m # None THEN MODEL_NAME ELSE "null"]

\* GET /api/health
health_check ==
    /\ LoopFree
    /\ MayReceive
    /\ served' = [served EXCEPT !.other = @ + 1]
    /\ resp' = [route |-> "health", code |-> 200, body |-> HealthBody(model)]
    /\ req' = NoRequest
    /\ UNCHANGED <<model_instance, model, built, caller, startup, pvars>>

\* the GET /api/model-info response for a handle
ModelInfoResponse(m) ==
    IF m = None
    THEN [route |-> "model_info", code |-> 503,
          body |-> [detail |-> "Model not loaded"]]
    ELSE [route |-> "model_info", code |-> 200,
          body |-> [success |-> TRUE, model_name |-> MODEL_NAME]]

\* GET /api/model-info
model_info ==
    /\ LoopFree
    /\ MayReceive
    /\ served' = [served EXCEPT !.other = @ + 1]
    /\ resp' = ModelInfoResponse(model)
    /\ req' = NoRequest
    /\ UNCHANGED <<model_instance, model, built, caller, startup, pvars>>

\* POST /api/create-template: the template is echoed and not kept
create_template(name, content) ==
    /\ LoopFree
    /\ MayReceive
    /\ served' = [served EXCEPT !.other = @ + 1]
    /\ resp' = [route |-> "create_template", code |-> 200,
                body |-> [success |-> TRUE,
                          message |-> "Template created successfully",
                          name |-> name, content |-> content,
                          created_at |-> "2024-01-01T00:00:00Z"]]
    /\ req' = NoRequest
    /\ UNCHANGED <<model_instance, model, built, caller, startup, pvars>>

-----------------------------------------------------------------------------
(* The service. *)

Init ==
    /\ model_instance = None
    /\ model = None
    /\ built = <<>>
    /\ caller = [c \in Callers |-> [pc |-> "idle", result |-> None]]
    /\ startup = "pending"
    /\ req = NoRequest
    /\ resp = NoResponse
    /\ served = [generate |-> 0, other |-> 0]
    /\ generated_text = ""
    /\ content_type = ""
    /\ additional_context = ""
    /\ pc = "service"
    /\ out = ""

Next ==
    \/ \E c \in ServiceCallers : GetModelCheck(c)
    \/ \E c \in ServiceCallers : GetModelStore(c)
    \/ \E c \in ServiceCallers : GetModelRaise(c)
    \/ \E c \in ServiceCallers : GetModelReturn(c)
    \/ ReloadModel
    \/ StartupLoaded
    \/ StartupFailed
    \/ \E body \in Bodies : Receive(body)
    \/ CheckModel
    \/ BuildPrompt
    \/ \E text \in PipelineOutputs(req.prompt) : GenerateReturns(text)
    \/ \E message \in PipelineErrors : GenerateRaises(message)
    \/ CleanGenerated
    \/ ReturnContent
    \/ health_check
    \/ model_info
    \/ create_template("intro", "Dear reader")

Spec == Init /\ [][Next]_vars

-----------------------------------------------------------------------------
(* backend/model.py alone: threads that call get_model and reload_model    *)
(* concurrently, with no lock around _model_instance.                      *)

LoaderNext ==
    \/ \E c \in Threads : GetModelCheck(c)
    \/ \E c \in Threads : GetModelStore(c)
    \/ \E c \in Threads : GetModelRaise(c)
    \/ \E c \in Threads : GetModelReturn(c)
    \/ ReloadModel

SpecLoader == Init /\ [][LoaderNext]_vars

-----------------------------------------------------------------------------
(* The pure functions of prompts.py applied to inputs drawn from bounded   *)
(* sets.                                                                   *)

\* the most pieces an input text is put together from
MaxPieces == 2

\* a complete sentence of 120 characters: 119 letters and a period
Sent120 ==
    "aaaaaaaaaaaaaaaaaaaaaaaaaaaaaaaaaaaaaaaaaaaaaaaaaaaaaaaaaaaa"
    \o "aaaaaaaaaaaaaaaaaaaaaaaaaaaaaaaaaaaaaaaaaaaaaaaaaaaaaaaaaaa."

\* an unfinished sentence of 50 characters
Frag50 == "bbbbbbbbbbbbbbbbbbbbbbbbbbbbbbbbbbbbbbbbbbbbbbbbbb"

\* a fragment with a run of three spaces and a run of four newlines
Messy == "x   y\n\n\n\nz"

\* what an input text may begin with
Leads == {"", Sent120}

\* the pieces an input text is put together from
Pieces ==
    {"a", " ", "\n", ".", "[END]", "</s>", "Subject:", "Summary:", "[Hook]",
     Messy, Frag50}

\* the concatenations of at most n pieces
RECURSIVE Concats(_)
Concats(n) ==
    IF n = 0 THEN {""}
    ELSE LET S == Concats(n - 1) IN S \cup {s \o p : s \in S, p \in Pieces}

\* the input texts
Inputs == {l \o s : l \in Leads, s \in Concats(MaxPieces)}

\* the content types given: the seven of get_available_types and two others
ContentTypes ==
    {get_available_types[i] : i \in DOMAIN get_available_types}
        \cup {"poem", "Blog"}

PInit ==
    /\ generated_text \in Inputs
    /\ content_type \in ContentTypes
    /\ additional_context = ""
    /\ pc = "input"
    /\ out = ""
    /\ model_instance = None
    /\ model = None
    /\ built = <<>>
    /\ caller = [c \in Callers |-> [pc |-> "idle", result |-> None]]
    /\ startup = "pending"
    /\ req = NoRequest
    /\ resp = NoResponse
    /\ served = [generate |-> 0, other |-> 0]

\* cleaned_text = PromptTemplates.clean_output(generated_text, content_type)
CleanOutput ==
    /\ pc = "input"
    /\ out' = clean_output(generated_text, content_type)
    /\ pc' = "cleaned"
    /\ UNCHANGED <<generated_text, content_type, additional_context, svars>>

\* clean_output applied to its own result
CleanAgain ==
    /\ pc = "cleaned"
    /\ generated_text' = out
    /\ out' = clean_output(out, content_type)
    /\ pc' = "recleaned"
    /\ UNCHANGED <<content_type, additional_context, svars>>

\* prompt = PromptTemplates.get_prompt(content_type, user_input)
GetPrompt ==
    /\ pc = "input"
    /\ out' = get_prompt(content_type, generated_text)
    /\ pc' = "prompted"
    /\ UNCHANGED <<generated_text, content_type, additional_context, svars>>

\* PromptTemplates.get_short_prompt(content_type, user_input)
GetShortPrompt ==
    /\ pc = "input"
    /\ out' = get_short_prompt(content_type, generated_text)
    /\ pc' = "short_prompted"
    /\ UNCHANGED <<generated_text, content_type, additional_context, svars>>

\* the additional contexts given: none, a phrase, two paragraphs
Contexts == {"", "formal tone", "for students\n\nkeep it short"}

\* PromptTemplates.add_context(content_type, user_input, additional_context)
AddContext ==
    /\ pc = "input"
    /\ \E context \in Contexts :
         /\ additional_context' = context
         /\ out' = add_context(content_type, generated_text, context)
    /\ pc' = "context_added"
    /\ UNCHANGED <<generated_text, content_type, svars>>

PNext ==
    CleanOutput \/ CleanAgain \/ GetPrompt \/ GetShortPrompt \/ AddContext

SpecPure == PInit /\ [][PNext]_vars

-----------------------------------------------------------------------------
(* The claims about the service. *)

\* the threads whose get_model call constructed an instance
Builders == {built[i].by : i \in BuiltByGetModel}

\* C1: for any interleaving of get_model calls that start while no instance
\* exists, the model is constructed at most once, and the callers that found
\* no instance all receive the same instance.
C1_ConstructedOnce ==
    /\ Cardinality(BuiltByGetModel) <= 1
    /\ \A c, d \in Builders :
         caller[c].pc = "returned" /\ caller[d].pc = "returned"
             => caller[c].result = caller[d].result

\* the calls made for the request being handled, by name
Called(name) == {i \in DOMAIN req.calls : req.calls[i] = name}

\* C2: a POST /api/generate request handled while the model handle is unset
\* ends with HTTP 503, and neither the prompt builder, the generation call
\* nor the output cleaner has been invoked for it; so for every such request.
C2_Unavailable503 ==
    (model = None /\ req.pc \notin {"idle", "received"})
        => /\ req.pc = "done"
           /\ resp.route = "generate"
           /\ resp.code = 503
           /\ req.calls = <<>>

\* C2's case: the second generate request in a row is answered 503
C2_Witness ==
    /\ model = None
    /\ served.generate = 2
    /\ req.pc = "done"
    /\ resp.code = 503

\* C3: when model construction raises during the startup event, startup
\* completes with the handle unset, requests are still received, GET
\* /api/health reports model_loaded false and model_name null, and GET
\* /api/model-info answers 503.
C3_StartupFailureAbsorbed ==
    caller[StartupCaller].pc = "raised" /\ startup # "pending"
        => /\ startup = "failed"
           /\ model = None
           /\ (LoopFree /\ MayReceive) => ENABLED (\E body \in Bodies : Receive(body))
           /\ resp.route = "health"
                  => /\ resp.code = 200
                     /\ resp.body.model_loaded = FALSE
                     /\ resp.body.model_name = "null"
           /\ resp.route = "model_info" => resp.code = 503

\* C3's case: the health route has answered after a failed startup load
C3_Witness ==
    /\ startup = "failed"
    /\ resp.route = "health"
    /\ served.other = 2

\* C4: when the generation call raises, the request ends with HTTP 500 that
\* carries the error message, the generation call was invoked exactly once,
\* and the output cleaner was not run.
C4_GenerationFailure500 ==
    req.error # ""
        => /\ req.pc = "done"
           /\ resp.route = "generate"
           /\ resp.code = 500
           /\ resp.body.detail = req.error
           /\ Cardinality(Called("generate_text")) = 1
           /\ Called("clean_output") = {}

\* C4's case: a generation has raised and the request has been answered
C4_Witness == req.error # "" /\ resp.code = 500

\* the calls of a complete pipeline, in their order
Pipeline == <<"get_prompt", "generate_text", "clean_output">>

\* C5: a request runs received, model check, prompt built, generated,
\* cleaned, returned: a success response comes only after prompt building,
\* generation and cleaning each ran once in that order, the generator fed the
\* built prompt, the cleaner fed the generator's output, the content being
\* the cleaner's output; every other run ends in an error without content.
C5_PipelineOrder ==
    /\ \E n \in 0..Len(Pipeline) : req.calls = SubSeq(Pipeline, 1, n)
    /\ req.pc = "done" => resp.route = "generate" /\ resp.code \in {200, 503, 500}
    /\ (resp.route = "generate" /\ resp.code = 200)
           => /\ req.pc = "done"
              /\ req.calls = Pipeline
              /\ req.prompt = get_prompt(req.request.type, req.request.input)
              /\ req.gen_arg = req.prompt
              /\ req.clean_arg = req.generated_text
              /\ req.cleaned_text = clean_output(req.generated_text, req.request.type)
              /\ resp.body.content = req.cleaned_text
    /\ (resp.route = "generate" /\ resp.code # 200)
           => /\ req.calls # Pipeline
              /\ "content" \notin DOMAIN resp.body

\* C5's case: a success response whose content the cleaner has changed
C5_Witness ==
    /\ resp.route = "generate"
    /\ resp.code = 200
    /\ resp.body.content # req.generated_text

\* C6 as stated: a request whose body omits type is processed with content
\* type "content": prompt from the content template, the content cleaning
\* rule, type "content" in the response.
C6_DefaultTypeContent ==
    (req.pc # "idle" /\ ~req.type_given)
        => /\ req.request.type = "content"
           /\ Called("get_prompt") # {}
                  => req.prompt = get_prompt("content", req.request.input)
           /\ (resp.route = "generate" /\ resp.code = 200)
                  => resp.body.type = "content"

\* C6, amended: a request whose body omits type is processed with content
\* type "blog": prompt from the blog template, the blog cleaning rule, type
\* "blog" in the response.
C6_DefaultTypeBlog ==
    (req.pc # "idle" /\ ~req.type_given)
        => /\ req.request.type = "blog"
           /\ Called("get_prompt") # {}
                  => req.prompt = get_prompt("blog", req.request.input)
           /\ Called("clean_output") # {}
                  => req.cleaned_text = clean_output(req.generated_text, "blog")
           /\ (resp.route = "generate" /\ resp.code = 200)
                  => resp.body.type = "blog"

\* C6's case: a request without type has been answered with content
C6_Witness ==
    /\ req.pc = "done"
    /\ ~req.type_given
    /\ resp.code = 200

-----------------------------------------------------------------------------
(* The claims about the pure functions of prompts.py. *)

\* the supported content types, as a set
SupportedTypes == {get_available_types[i] : i \in DOMAIN get_available_types}

\* clean_output has run on generated_text and out is its result
Cleaned == pc \in {"cleaned", "recleaned"}

\* C7: for a content type outside blog, email, copy, seo, video, summarize,
\* content and any text, get_prompt, get_short_prompt and clean_output
\* return exactly what they return for the type "content" on the same text.
C7_UnknownTypeAsContent ==
    content_type \notin SupportedTypes
        => /\ pc = "prompted" => out = get_prompt("content", generated_text)
           /\ pc = "short_prompted"
                  => out = get_short_prompt("content", generated_text)
           /\ Cleaned => out = clean_output(generated_text, "content")

\* C7's case: a prompt has been built for an unsupported type
C7_Witness ==
    /\ content_type = "Blog"
    /\ pc = "prompted"
    /\ generated_text # ""

\* C8: clean_output is idempotent: cleaning its own result again, with the
\* same content type, returns that result unchanged.
C8_Idempotent == pc = "recleaned" => out = generated_text

\* C9: the string returned by clean_output contains neither three newlines
\* in a row nor two spaces in a row.
C9_NoRuns ==
    Cleaned => ~Contains(out, "\n\n\n") /\ ~Contains(out, "  ")

\* C9's case: an email text with both runs and an artifact marker in it, which
\* the sentence-completion step has cut
C9_Witness ==
    /\ pc = "cleaned"
    /\ content_type = "email"
    /\ Contains(generated_text, "\n\n\n")
    /\ Contains(generated_text, "  ")
    /\ Contains(generated_text, "[END]")
    /\ LET text == ContentFixup(Normalize(generated_text), content_type)
       IN SentenceTrim(text) # text

\* C10 as stated: for email the cleaned output starts with "Subject:"; when
\* the text after artifact truncation does not start with "Subject:", the
\* output starts with the synthetic subject line, a blank line and then the
\* existing text; when it does, nothing is prepended.
C10_SubjectThenText ==
    (Cleaned /\ content_type = "email")
        => LET text == Normalize(generated_text) IN
           /\ StartsWith(out, "Subject:")
           /\ IF ~StartsWith(text, "Subject:")
              THEN StartsWith(out, SubjectLine \o "\n\n" \o text)
              ELSE StartsWith(text, out)

\* C10, amended: for email the cleaned output starts with "Subject:"; when
\* the text after artifact truncation does not start with "Subject:", the
\* output starts with the synthetic subject line and is a leading part of
\* that line, a blank line and the existing text, reaching into the existing
\* text when that is not empty; when it does, nothing is prepended.
C10_SubjectThenTextCut ==
    (Cleaned /\ content_type = "email")
        => LET text == Normalize(generated_text) IN
           /\ StartsWith(out, "Subject:")
           /\ IF ~StartsWith(text, "Subject:")
              THEN /\ StartsWith(out, SubjectLine)
                   /\ StartsWith(SubjectLine \o "\n\n" \o text, out)
                   /\ text # ""
                          => StartsWith(out, SubjectLine \o "\n\n" \o SubSeq(text, 1, 1))
              ELSE StartsWith(text, out)

\* C10's case: an email text without a subject has been cleaned
C10_Witness ==
    /\ pc = "cleaned"
    /\ content_type = "email"
    /\ Normalize(generated_text) # ""
    /\ ~StartsWith(Normalize(generated_text), "Subject:")

\* whole is fixed with the text put in at one place
InterpolatedOnce(whole, fixed, text) ==
    /\ Len(whole) = Len(fixed) + Len(text)
    /\ \E i \in 0..Len(fixed) :
         whole = SubSeq(fixed, 1, i) \o text \o SubSeq(fixed, i + 1, Len(fixed))

\* whole is fixed with the text put in at two places
InterpolatedTwice(whole, fixed, text) ==
    /\ Len(whole) = Len(fixed) + 2 * Len(text)
    /\ \E i \in 0..Len(fixed) : \E j \in i..Len(fixed) :
         whole = SubSeq(fixed, 1, i) \o text \o SubSeq(fixed, i + 1, j)
                 \o text \o SubSeq(fixed, j + 1, Len(fixed))

\* get_prompt has run on a supported type and a non-empty user input
PromptedSupported ==
    /\ pc = "prompted"
    /\ content_type \in SupportedTypes
    /\ generated_text # ""

\* C11 as stated: for every supported content type and non-empty user input
\* the prompt of get_prompt has the user input interpolated exactly once,
\* except for summarize, where it is interpolated twice.
C11_OnceButSummarizeTwice ==
    PromptedSupported
        => IF content_type = "summarize"
           THEN InterpolatedTwice(out, get_prompt(content_type, ""), generated_text)
           ELSE InterpolatedOnce(out, get_prompt(content_type, ""), generated_text)

\* C11, amended: for every supported content type, summarize included, and
\* non-empty user input the prompt of get_prompt has the user input
\* interpolated exactly once.
C11_InterpolatedOnce ==
    PromptedSupported
        => InterpolatedOnce(out, get_prompt(content_type, ""), generated_text)

\* C11's case: a summarize prompt has been built for a non-empty user input
C11_Witness == PromptedSupported /\ content_type = "summarize"

\* the line on which a type's template hands over to the generated text
GenerationCue(ctype) ==
    CASE ctype = "blog" -> "Blog Post:"
      [] ctype = "email" -> "Email:"
      [] ctype = "copy" -> "Marketing Copy:"
      [] ctype = "seo" -> "SEO Content:"
      [] ctype = "video" -> "Video Script:"
      [] ctype = "summarize" -> "Summary:"
      [] OTHER -> "Content:"

\* the 1-based positions in text at which a line begins with cue
CueLines(text, cue) ==
    {i \in Occurrences(text, cue) : i = 1 \/ SubSeq(text, i - 1, i - 1) = "\n"}

\* whole is base with one paragraph "Additional Context: <context>", set off
\* by line breaks only, put in immediately before the line at position i
ContextInsertedAt(whole, base, context, i) ==
    LET rest == Len(base) - i + 1 IN
    /\ Len(whole) >= Len(base)
    /\ SubSeq(whole, 1, i - 1) = SubSeq(base, 1, i - 1)
    /\ SubSeq(whole, Len(whole) - rest + 1, Len(whole)) = SubSeq(base, i, Len(base))
    /\ Strip(SubSeq(whole, i, Len(whole) - rest)) = "Additional Context: " \o context

\* add_context has run
ContextAdded == pc = "context_added"

\* C12: add_context with a non-empty additional context returns the base
\* prompt with one "Additional Context" paragraph inserted immediately
\* before the generation cue line of the type, for every content type; with
\* an empty context, or a base prompt of a single paragraph, it returns the
\* base prompt unchanged.
C12_ContextBeforeCue ==
    ContextAdded =>
        LET base == get_prompt(content_type, generated_text) IN
        IF additional_context # "" /\ Contains(base, "\n\n")
        THEN \E i \in CueLines(base, GenerationCue(content_type)) :
                 ContextInsertedAt(out, base, additional_context, i)
        ELSE out = base

\* C12 apart from the email type, whose template ends in a blank line
C12_ContextBeforeCueButEmail ==
    content_type # "email" => C12_ContextBeforeCue

\* C12's case: a non-empty context has been added to an email prompt
C12_Witness ==
    /\ ContextAdded
    /\ additional_context # ""
    /\ content_type = "email"

\* the 1-based positions in text at which some artifact marker begins
MarkerPositions(text) ==
    UNION {Occurrences(text, artifacts[i]) : i \in DOMAIN artifacts}

\* the text preceding the earliest occurrence of any artifact marker
EarliestMarkerCut(text) ==
    LET hits == MarkerPositions(text) IN
    IF hits = {} THEN text
    ELSE SubSeq(text, 1, (CHOOSE i \in hits : \A j \in hits : i <= j) - 1)

\* the text preceding the first occurrence of the marker that, of those
\* occurring in the text, comes first in the list
FirstListedCut(text) ==
    LET found == {i \in DOMAIN artifacts : Contains(text, artifacts[i])} IN
    IF found = {} THEN text
    ELSE SplitFirst(text, artifacts[CHOOSE i \in found : \A j \in found : i <= j])

\* C13 as stated: the first marker, in the order [END], [DONE],
\* <|endoftext|>, <END>, </s>, that occurs in the text alone determines the
\* cut of the artifact step: the result is the text preceding the first
\* occurrence of that marker, and markers later in the list cut no further.
C13_FirstListedAlone ==
    pc = "cleaned"
        => Normalize(generated_text) = FirstListedCut(Collapsed(generated_text))

\* C13, amended: the artifact step cuts at every listed marker that occurs
\* in the text as it then stands, so its result is the text preceding the
\* earliest occurrence in the text of any marker, whichever place that
\* marker has in the list.
C13_EarliestMarker ==
    pc = "cleaned"
        => Normalize(generated_text) = EarliestMarkerCut(Collapsed(generated_text))

\* C13's case: a text has been cleaned in which a marker later in the list
\* occurs before the first occurrence of the first listed one
C13_Witness ==
    /\ pc = "cleaned"
    /\ FirstListedCut(Collapsed(generated_text))
           # EarliestMarkerCut(Collapsed(generated_text))

\* the sentence-completion step as C14 words it: a text longer than 100
\* characters whose last character is not accepted is cut after its
\* rightmost '.', '!' or '?' if that one lies beyond 70% of the length (its
\* 0-based position k has 10k > 7L), and is left as it is in every other case
TrimBeyondSeventyPercent(text) ==
    LET L == Len(text)
        k == LastPeriod(text)
    IN  IF /\ L > 100
           /\ SubSeq(text, L, L) \notin {".", "!", "?", "\"", "'", ")"}
           /\ 10 * k > 7 * L
        THEN SubSeq(text, 1, k + 1)
        ELSE text

\* the rightmost '.', '!' or '?' of the text lies at exactly 70% of its length
AtSeventyPercent(text) == 10 * LastPeriod(text) = 7 * Len(text)

\* C14: the sentence-completion step of clean_output cuts a text of length
\* L > 100 whose last character is not one of . ! ? " ' ) after its
\* rightmost '.', '!' or '?' if that one lies beyond 0.7 * L, and leaves the
\* text unmodified in every other case, one at or before 70% of L included.
C14_SeventyPercent ==
    pc = "cleaned"
        => LET text == Fixed(generated_text, content_type) IN
           SentenceTrim(text) = TrimBeyondSeventyPercent(text)

\* C14 apart from the texts whose rightmost punctuation lies at exactly 70%
C14_SeventyPercentButTie ==
    pc = "cleaned"
        => LET text == Fixed(generated_text, content_type) IN
           AtSeventyPercent(text)
               \/ SentenceTrim(text) = TrimBeyondSeventyPercent(text)

\* C14's case: the step has run on a text longer than 100 characters with
\* an unfinished last sentence whose rightmost punctuation lies at 70%
C14_Witness ==
    /\ pc = "cleaned"
    /\ LET text == Fixed(generated_text, content_type) IN
       /\ Len(text) > 100
       /\ SubSeq(text, Len(text), Len(text)) \notin SentenceEnders
       /\ AtSeventyPercent(text)

\* the step has cut a text
C14_Cut ==
    /\ pc = "cleaned"
    /\ LET text == Fixed(generated_text, content_type) IN
       /\ ~AtSeventyPercent(text)
       /\ SentenceTrim(text) # text

\* the step has left a text with punctuation before 70% as it was
C14_Kept ==
    /\ pc = "cleaned"
    /\ LET text == Fixed(generated_text, content_type) IN
       /\ Len(text) > 100
       /\ SubSeq(text, Len(text), Len(text)) \notin SentenceEnders
       /\ LastPeriod(text) >= 0
       /\ 10 * LastPeriod(text) < 7 * Len(text)
       /\ SentenceTrim(text) = text

\* the artifact markers C15 names
ArtifactMarkers == {"[END]", "[DONE]", "<|endoftext|>", "<END>", "</s>"}

\* C15: for every raw text and every content type the string clean_output
\* returns contains none of the artifact markers [END], [DONE],
\* <|endoftext|>, <END>, </s> as a substring, whatever the order in which
\* the markers occur in the raw text.
C15_NoMarkerLeft ==
    Cleaned => \A marker \in ArtifactMarkers : ~Contains(out, marker)

\* C15's case: a raw text in which </s> occurs before [END] has been cleaned
\* and some text is left of it
C15_Witness ==
    /\ pc = "cleaned"
    /\ Contains(generated_text, "</s>")
    /\ Contains(generated_text, "[END]")
    /\ Find(generated_text, "</s>") < Find(generated_text, "[END]")
    /\ Len(out) > Len(SubjectLine)

\* what the handle of app.py holds once the startup event has returned:
\* the instance its get_model call returned, or None if that call raised
HandleOfStartup ==
    IF startup = "loaded" THEN caller[StartupCaller].result ELSE None

\* a generate request that has passed 'if model is None' worked with the
\* handle of the startup event, and one answered after a failed load got 503
RequestsUseHandleOfStartup ==
    /\ Serving => model = HandleOfStartup
    /\ req.pc \notin {"idle", "received"} => req.handle = HandleOfStartup
    /\ (startup = "failed" /\ resp.route = "generate") => resp.code = 503

\* C16: the model handle the request handlers use is written only by the
\* startup event: once startup has finished no generate, health, model-info,
\* create-template, get_model or reload_model step changes whether it is set
\* or which instance it refers to, so a service whose startup load failed
\* answers 503 to every later generate request and a reload_model
\* replacement is not seen by requests.
C16_HandleWrittenByStartupOnly ==
    [][/\ Serving => model' = model
       /\ RequestsUseHandleOfStartup']_vars

\* C16's case: after a failed startup load reload_model has put an instance
\* in place and a later generate request has still been answered 503
C16_Witness ==
    /\ startup = "failed"
    /\ model_instance # None
    /\ built[model_instance].via = "reload_model"
    /\ req.pc = "done"
    /\ resp.route = "generate"
    /\ resp.code = 503

\* a request has worked with the startup instance after reload_model
\* replaced the instance of the loader
C16_ReloadUnseen ==
    /\ startup = "loaded"
    /\ model_instance # model
    /\ req.pc = "done"
    /\ req.handle = model
    /\ resp.code = 200

=============================================================================
